---- MODULE Spec2Model ----
(***************************************************************************)
(* Schneider gateway HTTP facade: the backend of src/app/core/backend.py   *)
(* (session probe, login, command translation, RPC POSTs), the config      *)
(* store of src/app/core/config.py and the route layer of                  *)
(* src/app/api/routes.py.                                                  *)
(*                                                                         *)
(* The gateway and the disk are the environment: every answer of the       *)
(* gateway (transport failure, any status, cookie present or absent, body  *)
(* parseable or not) and every outcome of writing the config file is a     *)
(* nondeterministic choice.  Every HTTP call a request handler makes is    *)
(* appended to that handler's log, exactly as it was sent.                 *)
(*                                                                         *)
(* The standalone script src/schneider_gateway_fastapi.py is an earlier     *)
(* copy of the same backend without the try/except blocks; the application *)
(* (src/app/main.py) does not import it and it is not modelled.            *)
(*                                                                         *)
(* Not modelled: transId (wall clock, int(time.time())), logging, and the  *)
(* base64 encoding of the credentials (kept as the pair it encodes).       *)
(***************************************************************************)
EXTENDS Integers, Sequences, FiniteSets, TLC

\* ------------------------------------------------------------------ bounds

\* Request handlers that exist (one per inbound request being served).
NumProcs == 2

\* Distinct session cookies the gateway may issue.
NumCookies == 2

\* ------------------------------------------------------- Optional[...] values

None == <<>>

Some(x) == <<x>>

\* ------------------------------------------------------------ configuration

\* ir_codes of the AC unit: a table that has no heat_mode entry and a single
\* temperature entry.
AcIrCodes ==
    [power_on |-> <<11, 12>>, power_off |-> <<13>>, cool_mode |-> <<14, 15>>,
     temp_24 |-> <<16>>]

\* config['devices']: name -> device_config.
Devices ==
    [LivingRoomLamp |-> [location |-> "living room", type |-> "DIMMER", entity |-> "E1"],
     HallSwitch     |-> [location |-> "hall", type |-> "SWITCH", entity |-> "E2"],
     BedroomAC      |-> [location |-> "bedroom", type |-> "AC", entity |-> "E3",
                         ir_codes |-> AcIrCodes],
     GarageFan      |-> [location |-> "garage", type |-> "FAN", entity |-> "E4"]]

\* The parsed YAML file whose cookie field is c.
ConfigWith(c) ==
    [gateway_ip |-> "10.0.0.2", username |-> "admin", password |-> "secret",
     cookie |-> c, devices |-> Devices]

\* The cookies the gateway may issue ("c1", "c2", ...).
IssuedCookies == {"c" \o ToString(i) : i \in 1..NumCookies}

\* Every value the cookie field may hold ('' when none was ever stored).
CookieValues == {""} \cup IssuedCookies

Procs == 1..NumProcs

\* -------------------------------------------------------------------- state

VARIABLES
    cookie,     \* self.cookie
    config,     \* self.config
    file,       \* the YAML file: Some(config written) or None (truncated)
    pc,         \* pc[p]: where handler p is
    req,        \* req[p]: the request handler p serves
    log,        \* log[p]: the HTTP calls handler p has made, in order
    todo,       \* todo[p]: the RPC payloads handler p has still to send
    results,    \* results[p]: read_device_status' results dict
    resp,       \* resp[p]: the HTTP response given to the caller
    buffer      \* buffer[p]: what handler p has dumped into the file it has
                \* open for writing (None when it has none open)

vars == <<cookie, config, file, pc, req, log, todo, results, resp, buffer>>

\* ----------------------------------------------------------------- requests

DeviceNames == {"LivingRoomLamp", "HallSwitch", "BedroomAC", "GarageFan", "Attic"}

Actions == {"on", "off", "dim", "set_mode", "set_temperature", "toggle"}

Levels == {None, Some(0), Some(50)}

AcModes == {None, Some("cool"), Some("heat"), Some("dry")}

Temperatures == {None, Some(24), Some(30)}

\* DeviceControl bodies; at most one optional parameter is given at a time.
ControlRequests ==
    {[op |-> "control_device", device_name |-> d, action |-> a,
      level |-> l, ac_mode |-> m, temperature |-> t] :
        d \in DeviceNames, a \in Actions, l \in Levels, m \in AcModes,
        t \in Temperatures}

OneOptional(r) ==
    Cardinality({f \in {"level", "ac_mode", "temperature"} : r[f] # None}) <= 1

StatusRequests ==
    {[op |-> "read_device_status", device_name |-> d] : d \in DeviceNames}

Requests == {r \in ControlRequests : OneOptional(r)} \cup StatusRequests

NoRequest == [op |-> "none"]

NoResponse == [status_code |-> 0, detail |-> "", content |-> None]

\* ------------------------------------------------------- gateway's answers

\* requests.RequestException raised by requests.get / requests.post.
TransportFailure == [err |-> TRUE, status_code |-> 0, cookies |-> None, json |-> None]

\* A response: its status, its user_id cookie (if any), its parsed body (None
\* when the body is not JSON).
Reply(s, c, j) == [err |-> FALSE, status_code |-> s, cookies |-> c, json |-> j]

GatewayStatuses == {200, 403}

ProbeAnswers ==
    {TransportFailure} \cup {Reply(s, None, None) : s \in GatewayStatuses}

LoginAnswers ==
    {TransportFailure}
    \cup {Reply(s, None, None) : s \in GatewayStatuses}
    \cup {Reply(200, Some(c), None) : c \in IssuedCookies}

RpcAnswers ==
    {TransportFailure}
    \cup {Reply(s, None, None) : s \in GatewayStatuses}
    \cup {Reply(200, None, Some([result |-> "ok"]))}

\* ------------------------------------------------------------------ helpers

\* dict.get(key, default)
DictGet(d, key, default) == IF key \in DOMAIN d THEN d[key] ELSE default

HTTPException(code, text) ==
    [type |-> "HTTPException", status_code |-> code, detail |-> text]

\* Any exception that is not an HTTPException (KeyError, OSError, ValueError).
OtherException(name) == [type |-> name, status_code |-> 0, detail |-> name]

\* self.base_url
base_url == "http://" \o ConfigWith("").gateway_ip

\* get_auth_header(): Basic base64(username:password)
get_auth_header == [Authorization |-> <<"Basic", config.username, config.password>>]

\* A Cookie header that leaves the cookie out.
CookieHeader_anonymous(c) == "user_id="

CookieHeader(c) == "user_id=" \o c

ProbeUrl == base_url \o "/home.html"

LoginUrl == base_url \o "/cgi-bin/admin"

RpcUrl == base_url \o "/cgi-bin/rpc_bridge"

\* One HTTP call as it went out, with what came back.
Call(verb, url, headers, body, answer) ==
    [verb |-> verb, url |-> url, headers |-> headers, json |-> body,
     answer |-> answer]

IsProbe(e) == e.url = ProbeUrl

IsLogin(e) == e.url = LoginUrl

IsRpc(e) == e.url = RpcUrl

\* ------------------------------------------------------ the route layer

\* routes.py: an HTTPException goes to the caller as it is; anything else
\* becomes a 500 whose detail is str(e).
Route(exc) ==
    IF exc.type = "HTTPException"
    THEN [status_code |-> exc.status_code, detail |-> exc.detail, content |-> None]
    ELSE [status_code |-> 500, detail |-> exc.detail, content |-> None]

\* routes.py: {"status": "success", "result": result}
Success(result) ==
    [status_code |-> 200, detail |-> "",
     content |-> Some([status |-> "success", result |-> result])]

\* ------------------------------------------------------- session manager

\* Faulty variant of is_cookie_valid: a transport failure is not turned into
\* False.
is_cookie_valid_unguarded(answer) ==
    answer.err \/ answer.status_code = 200

\* is_cookie_valid(): True iff the probe was answered with 200; a transport
\* failure is logged and gives False.
is_cookie_valid(answer) ==
    IF answer.err THEN FALSE ELSE answer.status_code = 200

\* Faulty variant of login: a rejected or failed login is logged and
\* swallowed, the cookie left as ''.
login_swallowing(answer) ==
    [exc |-> None,
     cookie |-> Some(IF answer.cookies = None THEN "" ELSE answer.cookies[1])]

\* Faulty variant of login: a transport failure is reported as a rejected
\* login.
login_all_401(answer) ==
    IF ~answer.err /\ answer.status_code = 200
    THEN [exc |-> None,
          cookie |-> Some(IF answer.cookies = None THEN "" ELSE answer.cookies[1])]
    ELSE [exc |-> Some(HTTPException(401, "Login failed")), cookie |-> None]

\* Faulty variant of login: the status of the answer is not looked at, the
\* cookie of any answer is stored.
login_any_status(answer) ==
    IF answer.err
    THEN [exc |-> Some(HTTPException(500, "Login request failed")), cookie |-> None]
    ELSE [exc |-> None,
          cookie |-> Some(IF answer.cookies = None THEN "" ELSE answer.cookies[1])]

\* login(): what it raises (None when it returns) and the cookie it stores.
\* response.cookies.get('user_id', '') gives '' when the cookie is absent.
login(answer) ==
    IF answer.err
    THEN [exc |-> Some(HTTPException(500, "Login request failed")), cookie |-> None]
    ELSE IF answer.status_code = 200
         THEN [exc |-> None,
               cookie |-> Some(IF answer.cookies = None THEN ""
                               ELSE answer.cookies[1])]
         ELSE [exc |-> Some(HTTPException(401, "Login failed")), cookie |-> None]

\* Faulty variant of save_config: nothing is written.
save_config_skipped(cfg, old) ==
    {[exc |-> None, file |-> old]}

\* save_config(): what the file may hold afterwards, and whether the write
\* raised.  open(..., 'w') may fail and leave the file as it was; yaml.dump
\* may fail after the file was truncated.
save_config(cfg, old) ==
    {[exc |-> None, file |-> Some(cfg)],
     [exc |-> Some(OtherException("OSError")), file |-> old],
     [exc |-> Some(OtherException("OSError")), file |-> None]}

\* ---------------------------------------------------- command translator

Command(method, params) == [exc |-> None, method |-> method, params |-> params]

Raise(exc) == [exc |-> Some(exc), method |-> "", params |-> None]

\* The send-IR-code command carrying ir_code.
IrParams(entity, ir_code) ==
    Command("RPC_ZCL_Send_IR_Code",
            [entity |-> entity, index |-> 1, repeat |-> 0, codeType |-> 0,
             irCode |-> ir_code])

\* device_config['ir_codes'][key]: KeyError when the key is absent.
IrCode(device_config, entity, key) ==
    IF key \in DOMAIN device_config.ir_codes
    THEN IrParams(entity, device_config.ir_codes[key])
    ELSE Raise(OtherException("KeyError"))

\* f'temp_{temperature}'
TempKey(temperature) == "temp_" \o ToString(temperature)

\* Faulty variant of TranslateDimmer: the level is tested for truth, so that
\* level 0 counts as missing.
TranslateDimmer_falsy_level(device_config, action, level) ==
    LET entity == device_config.entity IN
    IF action = "on"
    THEN Command("RPC_ZCL_Set_OnOffTog", [entity |-> entity, action |-> 1])
    ELSE IF action = "off"
    THEN Command("RPC_ZCL_Set_OnOffTog", [entity |-> entity, action |-> 0])
    ELSE IF action = "dim"
    THEN IF level = None \/ level = Some(0)
         THEN Raise(HTTPException(400, "Level is required for dimming"))
         ELSE Command("RPC_ZCL_Move_To",
                      [entity |-> entity, level |-> level[1], transTime |-> 0])
    ELSE Raise(HTTPException(400, "Invalid action for DIMMER"))

\* control_device(), the DIMMER branch.
TranslateDimmer(device_config, action, level) ==
    LET entity == device_config.entity IN
    IF action = "on"
    THEN Command("RPC_ZCL_Set_OnOffTog", [entity |-> entity, action |-> 1])
    ELSE IF action = "off"
    THEN Command("RPC_ZCL_Set_OnOffTog", [entity |-> entity, action |-> 0])
    ELSE IF action = "dim"
    THEN IF level = None
         THEN Raise(HTTPException(400, "Level is required for dimming"))
         ELSE Command("RPC_ZCL_Move_To",
                      [entity |-> entity, level |-> level[1], transTime |-> 0])
    ELSE Raise(HTTPException(400, "Invalid action for DIMMER"))

\* Faulty variant of TranslateSwitch: the action is not validated.
TranslateSwitch_unvalidated(device_config, action) ==
    Command("RPC_ZCL_Set_OnOffTog",
            [entity |-> device_config.entity,
             action |-> IF action = "on" THEN 1 ELSE 0])

\* control_device(), the SWITCH branch.
TranslateSwitch(device_config, action) ==
    IF action \notin {"on", "off"}
    THEN Raise(HTTPException(400, "Invalid action for SWITCH"))
    ELSE Command("RPC_ZCL_Set_OnOffTog",
                 [entity |-> device_config.entity,
                  action |-> IF action = "on" THEN 1 ELSE 0])

\* Faulty variant of TranslateAC: a mode or temperature without code is
\* rejected instead of being sent as an empty code.
TranslateAC_strict(device_config, action, ac_mode, temperature) ==
    LET entity == device_config.entity IN
    IF action = "on" THEN IrCode(device_config, entity, "power_on")
    ELSE IF action = "off" THEN IrCode(device_config, entity, "power_off")
    ELSE IF action = "set_mode" THEN
        IF ac_mode = Some("cool") THEN IrCode(device_config, entity, "cool_mode")
        ELSE IF ac_mode = Some("heat") THEN IrCode(device_config, entity, "heat_mode")
        ELSE Raise(HTTPException(400, "Invalid mode for AC"))
    ELSE IF action = "set_temperature" THEN
        IF temperature # None /\ TempKey(temperature[1]) \in DOMAIN device_config.ir_codes
        THEN IrParams(entity, device_config.ir_codes[TempKey(temperature[1])])
        ELSE Raise(HTTPException(400, "Invalid temperature for AC"))
    ELSE IrParams(entity, <<>>)

\* control_device(), the AC branch: ir_code starts as [] and stays so when no
\* branch assigns it.
TranslateAC(device_config, action, ac_mode, temperature) ==
    LET entity == device_config.entity IN
    IF action = "on" THEN IrCode(device_config, entity, "power_on")
    ELSE IF action = "off" THEN IrCode(device_config, entity, "power_off")
    ELSE IF action = "set_mode" THEN
        IF ac_mode = Some("cool") THEN IrCode(device_config, entity, "cool_mode")
        ELSE IF ac_mode = Some("heat") THEN IrCode(device_config, entity, "heat_mode")
        ELSE IrParams(entity, <<>>)
    ELSE IF action = "set_temperature" THEN
        IF temperature # None
        THEN IrParams(entity,
                      DictGet(device_config.ir_codes, TempKey(temperature[1]), <<>>))
        ELSE IrParams(entity, <<>>)
    ELSE IrParams(entity, <<>>)

\* control_device(), the dispatch on the device type: the method and params
\* for (device_config, action, level, ac_mode, temperature), or the exception
\* raised.
Translate(device_config, action, level, ac_mode, temperature) ==
    IF device_config.type = "DIMMER"
    THEN TranslateDimmer(device_config, action, level)
    ELSE IF device_config.type = "SWITCH"
    THEN TranslateSwitch(device_config, action)
    ELSE IF device_config.type = "AC"
    THEN TranslateAC(device_config, action, ac_mode, temperature)
    ELSE Raise(HTTPException(400, "Unsupported device type"))

\* Faulty variant of StatusMethods: the DIMMER's level is queried first.
StatusMethods_level_first(device_config) ==
    IF device_config.type = "DIMMER"
    THEN [exc |-> None, methods |-> <<"RPC_ZCL_Get_Level", "RPC_ZCL_Get_OnOff">>]
    ELSE IF device_config.type = "SWITCH"
    THEN [exc |-> None, methods |-> <<"RPC_ZCL_Get_OnOff">>]
    ELSE [exc |-> Some(HTTPException(400, "Unsupported device type for status reading")),
          methods |-> <<>>]

\* read_device_status(): the query methods of a device type, in order.
StatusMethods(device_config) ==
    IF device_config.type = "DIMMER"
    THEN [exc |-> None, methods |-> <<"RPC_ZCL_Get_OnOff", "RPC_ZCL_Get_Level">>]
    ELSE IF device_config.type = "SWITCH"
    THEN [exc |-> None, methods |-> <<"RPC_ZCL_Get_OnOff">>]
    ELSE [exc |-> Some(HTTPException(400, "Unsupported device type for status reading")),
          methods |-> <<>>]

\* The JSON-RPC envelope (transId left out).
Payload(method, params) == [jsonrpc |-> "2.0", method |-> method, params |-> params]

DeviceNotFound(device_name) ==
    HTTPException(404, "Device " \o device_name \o " not found in configuration")

\* What a handler does between the session step and its first POST: the
\* device lookup, then the translation (control_device) or the method list
\* (read_device_status).  Gives the exception raised or the payloads to send.
Plan(cfg, r) ==
    LET device_config == DictGet(cfg.devices, r.device_name, None) IN
    IF device_config = None
    THEN [exc |-> Some(DeviceNotFound(r.device_name)), payloads |-> <<>>]
    ELSE IF r.op = "control_device"
    THEN LET t == Translate(device_config, r.action, r.level, r.ac_mode,
                            r.temperature) IN
         IF t.exc # None
         THEN [exc |-> t.exc, payloads |-> <<>>]
         ELSE [exc |-> None, payloads |-> <<Payload(t.method, t.params)>>]
    ELSE LET m == StatusMethods(device_config) IN
         IF m.exc # None
         THEN [exc |-> m.exc, payloads |-> <<>>]
         ELSE [exc |-> None,
               payloads |-> [i \in 1..Len(m.methods) |->
                                Payload(m.methods[i],
                                        [entity |-> device_config.entity])]]

\* --------------------------------------------------------- gateway client

FailText(r) ==
    IF r.op = "control_device" THEN "Device control failed"
    ELSE "Device status read failed"

RequestFailText(r) ==
    IF r.op = "control_device" THEN "Device control request failed"
    ELSE "Device status read request failed"

\* Faulty variant of PostRaises: the upstream status is not passed on.
PostRaises_always500(r, answer) ==
    IF answer.err \/ answer.status_code # 200 \/ answer.json = None
    THEN {HTTPException(500, RequestFailText(r))}
    ELSE {}

\* The try block around requests.post: the exceptions it may raise for an
\* answer (the empty set when the POST gives a parsed body).  A body that is
\* not JSON makes response.json() raise: a RequestException subclass in
\* recent versions of requests, a plain ValueError in older ones.
PostRaises(r, answer) ==
    IF answer.err
    THEN {HTTPException(500, RequestFailText(r))}
    ELSE IF answer.status_code # 200
    THEN {HTTPException(answer.status_code, FailText(r))}
    ELSE IF answer.json = None
    THEN {HTTPException(500, RequestFailText(r)), OtherException("ValueError")}
    ELSE {}

\* ------------------------------------------------------------------ actions

Init ==
    /\ \E c \in CookieValues :
          /\ config = ConfigWith(c)
          /\ file = Some(ConfigWith(c))
          /\ cookie = DictGet(ConfigWith(c), "cookie", "")
    /\ pc = [p \in Procs |-> "idle"]
    /\ req = [p \in Procs |-> NoRequest]
    /\ log = [p \in Procs |-> <<>>]
    /\ todo = [p \in Procs |-> <<>>]
    /\ results = [p \in Procs |-> <<>>]
    /\ resp = [p \in Procs |-> NoResponse]
    /\ buffer = [p \in Procs |-> None]

\* Faulty variant of Fails: the handler starts the operation again instead of
\* answering.
Fails_retrying(p, exc) ==
    /\ pc' = [pc EXCEPT ![p] = "is_cookie_valid"]
    /\ UNCHANGED resp

\* Handler p raises exc: the route layer answers the caller.
Fails(p, exc) ==
    /\ resp' = [resp EXCEPT ![p] = Route(exc)]
    /\ pc' = [pc EXCEPT ![p] = "done"]

\* The route receives a request and calls the backend with it.
StartReq(p, r) ==
    /\ pc[p] = "idle"
    /\ pc' = [pc EXCEPT ![p] = "is_cookie_valid"]
    /\ req' = [req EXCEPT ![p] = r]
    /\ UNCHANGED <<cookie, config, file, log, todo, results, resp, buffer>>

\* Requests are served one at a time, by the first handler.
Start ==
    \E r \in Requests :
        /\ \A q \in Procs : pc[q] = "idle"
        /\ StartReq(1, r)

\* if not self.is_cookie_valid(): the probe, first thing in both operations.
IsCookieValid(p) ==
    /\ pc[p] = "is_cookie_valid"
    /\ \E answer \in ProbeAnswers :
          /\ log' = [log EXCEPT ![p] = Append(@,
                        Call("GET", ProbeUrl,
                             [Cookie |-> CookieHeader(cookie)] @@ get_auth_header,
                             None, answer))]
          /\ pc' = [pc EXCEPT ![p] = IF is_cookie_valid(answer) THEN "plan"
                                     ELSE "login"]
    /\ UNCHANGED <<cookie, config, file, req, todo, results, resp, buffer>>

\* self.login(): the GET, and on 200 the three writes of the cookie.
Login(p) ==
    /\ pc[p] = "login"
    /\ \E answer \in LoginAnswers :
          LET out == login(answer) IN
          /\ log' = [log EXCEPT ![p] = Append(@,
                        Call("GET", LoginUrl, get_auth_header, None, answer))]
          /\ IF out.exc # None
             THEN /\ Fails(p, out.exc[1])
                  /\ UNCHANGED <<cookie, config, file>>
             ELSE /\ cookie' = out.cookie[1]
                  /\ config' = [config EXCEPT !.cookie = out.cookie[1]]
                  /\ \E saved \in save_config(config', file) :
                        /\ file' = saved.file
                        /\ IF saved.exc # None
                           THEN Fails(p, saved.exc[1])
                           ELSE /\ pc' = [pc EXCEPT ![p] = "plan"]
                                /\ UNCHANGED resp
    /\ UNCHANGED <<req, todo, results, buffer>>

\* The device lookup and the translation, up to the first POST.
Dispatch(p) ==
    /\ pc[p] = "plan"
    /\ LET plan == Plan(config, req[p]) IN
       IF plan.exc # None
       THEN /\ Fails(p, plan.exc[1])
            /\ UNCHANGED todo
       ELSE /\ todo' = [todo EXCEPT ![p] = plan.payloads]
            /\ pc' = [pc EXCEPT ![p] = "post"]
            /\ UNCHANGED resp
    /\ UNCHANGED <<cookie, config, file, req, log, results, buffer>>

\* requests.post of the next payload, with the cookie held at that moment.
SendRpc(p) ==
    /\ pc[p] = "post"
    /\ LET payload == Head(todo[p])
           headers == [Cookie |-> CookieHeader(cookie),
                       ContentType |-> "application/json"] @@ get_auth_header
       IN
       \E answer \in RpcAnswers :
          /\ log' = [log EXCEPT ![p] = Append(@,
                        Call("POST", RpcUrl, headers, Some(payload), answer))]
          /\ IF PostRaises(req[p], answer) # {}
             THEN /\ \E exc \in PostRaises(req[p], answer) : Fails(p, exc)
                  /\ UNCHANGED <<todo, results>>
             ELSE IF req[p].op = "control_device"
             THEN \* return response.json()
                  /\ resp' = [resp EXCEPT ![p] = Success(answer.json[1])]
                  /\ pc' = [pc EXCEPT ![p] = "done"]
                  /\ todo' = [todo EXCEPT ![p] = Tail(@)]
                  /\ UNCHANGED results
             ELSE \* results[method] = response.json()
                  LET got == (payload.method :> answer.json[1]) @@ results[p] IN
                  /\ results' = [results EXCEPT ![p] = got]
                  /\ todo' = [todo EXCEPT ![p] = Tail(@)]
                  /\ IF Tail(todo[p]) = <<>>
                     THEN /\ resp' = [resp EXCEPT ![p] = Success(got)]
                          /\ pc' = [pc EXCEPT ![p] = "done"]
                     ELSE UNCHANGED <<resp, pc>>
    /\ UNCHANGED <<cookie, config, file, req, buffer>>

\* The response has gone to the caller; the handler is free again.
Finish(p) ==
    /\ pc[p] = "done"
    /\ pc' = [pc EXCEPT ![p] = "idle"]
    /\ req' = [req EXCEPT ![p] = NoRequest]
    /\ log' = [log EXCEPT ![p] = <<>>]
    /\ todo' = [todo EXCEPT ![p] = <<>>]
    /\ results' = [results EXCEPT ![p] = <<>>]
    /\ resp' = [resp EXCEPT ![p] = NoResponse]
    /\ UNCHANGED <<cookie, config, file, buffer>>

Next ==
    \/ Start
    \/ \E p \in Procs : IsCookieValid(p)
    \/ \E p \in Procs : Login(p)
    \/ \E p \in Procs : Dispatch(p)
    \/ \E p \in Procs : SendRpc(p)
    \/ \E p \in Procs : Finish(p)

Spec == Init /\ [][Next]_vars

\* ------------------------------------------------- concurrent handlers
\* One thread per request, all on the one backend object, as the handlers
\* would run were they not serialised by the event loop.  Nothing in
\* backend.py or config.py takes a lock, so login() is taken statement by
\* statement and save_config() in its two halves: open-and-dump, then the
\* flush at the end of the with block.  (File contents are taken to be of
\* equal length, so that a later flush replaces an earlier one.)

\* The requests served concurrently.
ConcRequests ==
    {[op |-> "control_device", device_name |-> "LivingRoomLamp", action |-> "on",
      level |-> None, ac_mode |-> None, temperature |-> None],
     [op |-> "read_device_status", device_name |-> "HallSwitch"]}

\* A request arrives while others may be in progress.
StartConc ==
    \E p \in Procs : \E r \in ConcRequests : StartReq(p, r)

\* login(), the GET and the test of its status.
LoginGet(p) ==
    /\ pc[p] = "login"
    /\ \E answer \in LoginAnswers :
          /\ log' = [log EXCEPT ![p] = Append(@,
                        Call("GET", LoginUrl, get_auth_header, None, answer))]
          /\ IF login(answer).exc # None
             THEN Fails(p, login(answer).exc[1])
             ELSE /\ pc' = [pc EXCEPT ![p] = "login_cookie"]
                  /\ UNCHANGED resp
    /\ UNCHANGED <<cookie, config, file, req, todo, results, buffer>>

\* self.cookie = response.cookies.get('user_id', '')
LoginSetCookie(p) ==
    /\ pc[p] = "login_cookie"
    /\ cookie' = login(log[p][Len(log[p])].answer).cookie[1]
    /\ pc' = [pc EXCEPT ![p] = "login_config"]
    /\ UNCHANGED <<config, file, req, log, todo, results, resp, buffer>>

\* self.config['cookie'] = self.cookie
LoginSetConfig(p) ==
    /\ pc[p] = "login_config"
    /\ config' = [config EXCEPT !.cookie = cookie]
    /\ pc' = [pc EXCEPT ![p] = "login_save"]
    /\ UNCHANGED <<cookie, file, req, log, todo, results, resp, buffer>>

\* save_config(): open(..., 'w') truncates the file and yaml.dump reads the
\* config into the file object; or open raises and the file stays.
SaveOpen(p) ==
    /\ pc[p] = "login_save"
    /\ \/ /\ file' = None
          /\ buffer' = [buffer EXCEPT ![p] = Some(config)]
          /\ pc' = [pc EXCEPT ![p] = "login_flush"]
          /\ UNCHANGED resp
       \/ /\ Fails(p, OtherException("OSError"))
          /\ UNCHANGED <<file, buffer>>
    /\ UNCHANGED <<cookie, config, req, log, todo, results>>

\* save_config(): leaving the with block writes what was dumped; or the
\* write raises and the file stays as it is.
SaveFlush(p) ==
    /\ pc[p] = "login_flush"
    /\ buffer' = [buffer EXCEPT ![p] = None]
    /\ \/ /\ file' = buffer[p]
          /\ pc' = [pc EXCEPT ![p] = "plan"]
          /\ UNCHANGED resp
       \/ /\ Fails(p, OtherException("OSError"))
          /\ UNCHANGED file
    /\ UNCHANGED <<cookie, config, req, log, todo, results>>

NextConc ==
    \/ StartConc
    \/ \E p \in Procs : IsCookieValid(p)
    \/ \E p \in Procs : LoginGet(p)
    \/ \E p \in Procs : LoginSetCookie(p)
    \/ \E p \in Procs : LoginSetConfig(p)
    \/ \E p \in Procs : SaveOpen(p)
    \/ \E p \in Procs : SaveFlush(p)
    \/ \E p \in Procs : Dispatch(p)
    \/ \E p \in Procs : SendRpc(p)

SpecConc == Init /\ [][NextConc]_vars

\* ------------------------------------------------------ reading the log

\* The positions of handler p's log that hold a call of a kind.
ProbeAt(p) == {i \in 1..Len(log[p]) : IsProbe(log[p][i])}

LoginAt(p) == {i \in 1..Len(log[p]) : IsLogin(log[p][i])}

RpcAt(p) == {i \in 1..Len(log[p]) : IsRpc(log[p][i])}

\* The gateway answered the call with status 200.
Answered200(e) == ~e.answer.err /\ e.answer.status_code = 200

\* The call failed: the transport failed or the status was not 200.
CallFailed(e) == e.answer.err \/ e.answer.status_code # 200

\* Handler p serves a request and is past its probe.
PastProbe(p) == pc[p] \in {"login", "plan", "post", "done"}

\* Handler p is past the session step (the probe, and the login if any).
PastSession(p) == pc[p] \in {"plan", "post", "done"}

\* The response of handler p reports an error.
ErrorResponse(p) == resp[p].status_code # 200 /\ resp[p].content = None

\* ------------------------------------------------------------------ C1

\* C1: in every request exactly one validity probe is made and it is the
\* first gateway call.  A probe that gives false (non-200 or transport
\* failure; the failure is not raised to the caller) is followed by exactly
\* one login before anything else happens and by no second probe; a probe
\* that gives true is followed by no login.
C1_OneProbeThenLogin ==
    \A p \in Procs :
        /\ ProbeAt(p) \subseteq {1}
        /\ log[p] # <<>> => ProbeAt(p) = {1}
        /\ PastProbe(p) => ProbeAt(p) = {1}
        /\ (PastProbe(p) /\ CallFailed(log[p][1])) =>
              /\ pc[p] = "login" => (Len(log[p]) = 1 /\ resp[p] = NoResponse)
              /\ PastSession(p) => LoginAt(p) = {2}
        /\ (PastProbe(p) /\ Answered200(log[p][1])) =>
              /\ LoginAt(p) = {}
              /\ pc[p] # "login"

\* A request whose probe failed in the transport, which logged in and sent
\* its command.
C1_Witness ==
    \E p \in Procs :
        /\ pc[p] = "done"
        /\ Len(log[p]) = 3
        /\ log[p][1].answer.err
        /\ IsLogin(log[p][2])
        /\ IsRpc(log[p][3])

\* ------------------------------------------------------------------ C2

\* C2: an RPC POST is sent only after, in the same request, the probe gave
\* true or a login succeeded; a request whose probe gave false and whose
\* login failed ends in an error with no RPC POST sent.
C2_NoRpcWithoutSession ==
    \A p \in Procs :
        /\ \A i \in RpcAt(p) :
              \E j \in 1..(i - 1) :
                  /\ IsProbe(log[p][j]) \/ IsLogin(log[p][j])
                  /\ Answered200(log[p][j])
        /\ \A j \in LoginAt(p) :
              CallFailed(log[p][j]) =>
                  /\ RpcAt(p) = {}
                  /\ pc[p] = "done"
                  /\ ErrorResponse(p)

\* A request ended by a failed login after a failed probe.
C2_Witness ==
    \E p \in Procs :
        /\ pc[p] = "done"
        /\ Len(log[p]) = 2
        /\ CallFailed(log[p][1])
        /\ IsLogin(log[p][2]) /\ CallFailed(log[p][2])

\* ------------------------------------------------------------------ C3

\* The cookie a login's answer carries ('' when it carries none).
CookieOf(e) == IF e.answer.cookies = None THEN "" ELSE e.answer.cookies[1]

\* C3: requests being served one at a time, when a request's login succeeds
\* with cookie C then, on return from login and until the request ends,
\* self.cookie, config['cookie'] and the cookie field of the file all equal
\* C, and every RPC POST of the request carries C in its Cookie header.
C3_NewCookieUsedAndPersisted ==
    \A p \in Procs :
        \A j \in LoginAt(p) :
            Answered200(log[p][j]) =>
                LET C == CookieOf(log[p][j]) IN
                /\ pc[p] \in {"plan", "post"} =>
                      /\ cookie = C
                      /\ config.cookie = C
                      /\ file = Some(config)
                /\ \A i \in RpcAt(p) :
                      /\ log[p][i].headers.Cookie = "user_id=" \o C
                      /\ cookie = C /\ config.cookie = C /\ file = Some(config)

\* A request that replaced a stored cookie by a different one and sent its
\* command with the new one.
C3_Witness ==
    \E p \in Procs :
        /\ pc[p] = "done"
        /\ Len(log[p]) = 3
        /\ IsLogin(log[p][2])
        /\ log[p][2].answer.cookies = Some("c1")
        /\ log[p][1].headers.Cookie = "user_id=c2"
        /\ IsRpc(log[p][3])
        /\ resp[p].status_code = 200

\* ------------------------------------------------------------------ C4

\* C4 as claimed: whenever the login of a request fails, by a non-success
\* status or by a transport failure, the caller is answered with 401.
C4_LoginFailureIs401 ==
    \A p \in Procs :
        \A j \in LoginAt(p) :
            (pc[p] = "done" /\ CallFailed(log[p][j])) => resp[p].status_code = 401

\* C4 as the code has it: a login answered with a status other than 200
\* gives the caller 401, and a login whose transport fails gives the caller
\* 500.
C4_LoginFailureStatus ==
    \A p \in Procs :
        \A j \in LoginAt(p) :
            pc[p] = "done" =>
                /\ (~log[p][j].answer.err /\ log[p][j].answer.status_code # 200) =>
                      (resp[p].status_code = 401 /\ resp[p].detail = "Login failed")
                /\ log[p][j].answer.err =>
                      (resp[p].status_code = 500
                       /\ resp[p].detail = "Login request failed")

\* A request ended by a login whose transport failed.
C4_Witness ==
    \E p \in Procs :
        /\ pc[p] = "done"
        /\ Len(log[p]) = 2
        /\ IsLogin(log[p][2])
        /\ log[p][2].answer.err
        /\ resp[p].status_code = 500

\* ------------------------------------------------------------------ C5

\* C5 as claimed: whenever an RPC POST is answered with a non-success status
\* or fails in the transport, the caller receives 500.
C5_RpcFailureIs500 ==
    \A p \in Procs :
        \A i \in RpcAt(p) :
            (pc[p] = "done" /\ CallFailed(log[p][i])) => resp[p].status_code = 500

\* C5 as the code has it: an RPC POST whose transport fails gives the caller
\* 500, and one answered with a status other than 200 gives the caller that
\* same status.
C5_RpcFailureStatus ==
    \A p \in Procs :
        \A i \in RpcAt(p) :
            pc[p] = "done" =>
                /\ log[p][i].answer.err => resp[p].status_code = 500
                /\ (~log[p][i].answer.err /\ log[p][i].answer.status_code # 200) =>
                      /\ resp[p].status_code = log[p][i].answer.status_code
                      /\ resp[p].content = None

\* A request whose RPC POST the gateway answered with 403.
C5_Witness ==
    \E p \in Procs :
        /\ pc[p] = "done"
        /\ log[p] # <<>>
        /\ IsRpc(log[p][Len(log[p])])
        /\ ~log[p][Len(log[p])].answer.err
        /\ log[p][Len(log[p])].answer.status_code = 403
        /\ resp[p].status_code = 403

\* ------------------------------------------------------------------ C6

\* C6: a request never retries: it makes at most one login attempt,
\* control_device sends at most one RPC POST, and a failed login or RPC POST
\* (non-200 status or transport failure) is the last gateway call of the
\* request, which ends with an error response.
C6_NoRetry ==
    \A p \in Procs :
        /\ Cardinality(LoginAt(p)) <= 1
        /\ req[p].op = "control_device" => Cardinality(RpcAt(p)) <= 1
        /\ \A i \in LoginAt(p) \cup RpcAt(p) :
              CallFailed(log[p][i]) =>
                  /\ i = Len(log[p])
                  /\ pc[p] = "done"
                  /\ ErrorResponse(p)

\* A command that failed after a successful re-login.
C6_Witness ==
    \E p \in Procs :
        /\ pc[p] = "done"
        /\ req[p].op = "control_device"
        /\ Len(log[p]) = 3
        /\ IsLogin(log[p][2]) /\ Answered200(log[p][2])
        /\ IsRpc(log[p][3]) /\ CallFailed(log[p][3])

\* ------------------------------------------------ reading the request

\* The catalog entry of the device a request names (None when unknown).
DeviceOf(r) == DictGet(Devices, r.device_name, None)

\* The type of the device a request names ("" when the device is unknown).
TypeOf(r) == IF DeviceOf(r) = None THEN "" ELSE DeviceOf(r).type

\* Handler p's request ended in its session step: its login failed, or the
\* login's write of the config file raised.
EndedInSession(p) ==
    /\ pc[p] = "done"
    /\ Len(log[p]) = 2
    /\ IsLogin(log[p][2])
    /\ CallFailed(log[p][2]) \/ resp[p].detail = "OSError"

\* Handler p's request is over and went past its session step.
EndedPastSession(p) == pc[p] = "done" /\ ~EndedInSession(p)

\* The RPC POSTs of handler p, in the order sent.
RpcSeq(p) == SelectSeq(log[p], IsRpc)

\* ------------------------------------------------------------------ C7

\* C7 as claimed: for a device of type AC, a control_device request whose
\* action is none of on, off, set_mode, set_temperature sends no RPC POST
\* and, once past the session step, fails with 400.
C7_AcUnknownActionRejected ==
    \A p \in Procs :
        (/\ req[p].op = "control_device"
         /\ TypeOf(req[p]) = "AC"
         /\ req[p].action \notin {"on", "off", "set_mode", "set_temperature"}) =>
            /\ RpcAt(p) = {}
            /\ EndedPastSession(p) => resp[p].status_code = 400

\* ------------------------------------------------------------------ C8

\* C8: for a SWITCH an action outside {on, off}, and for a DIMMER an action
\* outside {on, off, dim}, sends no RPC POST and, in a request that gets past
\* its session step, fails with 400 "Invalid action"; for on and off the
\* one RPC sent is the toggle-set method with action bit 1 for on, 0 for off.
C8_SwitchDimmerActions ==
    \A p \in Procs :
        LET r == req[p]
            illegal == \/ TypeOf(r) = "SWITCH" /\ r.action \notin {"on", "off"}
                       \/ TypeOf(r) = "DIMMER" /\ r.action \notin {"on", "off", "dim"}
        IN
        (r.op = "control_device" /\ TypeOf(r) \in {"SWITCH", "DIMMER"}) =>
            /\ illegal =>
                  /\ RpcAt(p) = {}
                  /\ EndedPastSession(p) =>
                        /\ resp[p].status_code = 400
                        /\ resp[p].detail = "Invalid action for " \o TypeOf(r)
            /\ r.action \in {"on", "off"} =>
                  /\ \A i \in RpcAt(p) :
                        log[p][i].json =
                            Some([jsonrpc |-> "2.0",
                                  method |-> "RPC_ZCL_Set_OnOffTog",
                                  params |-> [entity |-> DeviceOf(r).entity,
                                              action |-> IF r.action = "on" THEN 1
                                                         ELSE 0]])
                  /\ EndedPastSession(p) => Cardinality(RpcAt(p)) = 1

\* A SWITCH asked to dim, with a valid cookie: rejected with 400.
C8_Witness ==
    \E p \in Procs :
        /\ pc[p] = "done"
        /\ req[p].op = "control_device"
        /\ req[p].device_name = "HallSwitch"
        /\ req[p].action = "dim"
        /\ Len(log[p]) = 1 /\ Answered200(log[p][1])
        /\ resp[p].status_code = 400

\* ------------------------------------------------------------------ C9

\* C9: for a DIMMER with action dim, a request without level sends no RPC
\* POST and, once past its session step, fails with 400 "Level is
\* required"; a request with a level (0 included) that gets past its
\* session step sends exactly one RPC, the move-to-level method with params
\* {entity, that level, transTime 0}.
C9_DimNeedsLevel ==
    \A p \in Procs :
        LET r == req[p] IN
        (r.op = "control_device" /\ TypeOf(r) = "DIMMER" /\ r.action = "dim") =>
            /\ r.level = None =>
                  /\ RpcAt(p) = {}
                  /\ EndedPastSession(p) =>
                        /\ resp[p].status_code = 400
                        /\ resp[p].detail = "Level is required for dimming"
            /\ r.level # None =>
                  /\ \A i \in RpcAt(p) :
                        log[p][i].json =
                            Some([jsonrpc |-> "2.0",
                                  method |-> "RPC_ZCL_Move_To",
                                  params |-> [entity |-> DeviceOf(r).entity,
                                              level |-> r.level[1],
                                              transTime |-> 0]])
                  /\ EndedPastSession(p) => Cardinality(RpcAt(p)) = 1

\* A dimmer dimmed to level 0: the command went out and succeeded.
C9_Witness ==
    \E p \in Procs :
        /\ pc[p] = "done"
        /\ req[p].op = "control_device"
        /\ req[p].device_name = "LivingRoomLamp"
        /\ req[p].action = "dim"
        /\ req[p].level = Some(0)
        /\ RpcAt(p) # {}
        /\ resp[p].status_code = 200

\* ------------------------------------------------------------------ C10

\* The status queries of a device type, in the order claimed.
ExpectedQueries(type) ==
    IF type = "SWITCH" THEN <<"RPC_ZCL_Get_OnOff">>
    ELSE IF type = "DIMMER" THEN <<"RPC_ZCL_Get_OnOff", "RPC_ZCL_Get_Level">>
    ELSE <<>>

\* The RPC POST got no usable answer: transport failure, status other than
\* 200, or a body that does not parse.
QueryFailed(e) == CallFailed(e) \/ e.answer.json = None

\* C10: the POSTs of read_device_status are the queries of the device's
\* type, in order (on/off state for a SWITCH; on/off state then level for a
\* DIMMER; none for any other type, which fails with 400 once past the
\* session step).  A failed query is the last one sent and the caller gets
\* an error without result; a success holds exactly one entry per query.
C10_StatusQueries ==
    \A p \in Procs :
        LET r == req[p]
            sent == RpcSeq(p)
            want == ExpectedQueries(TypeOf(r))
        IN
        r.op = "read_device_status" =>
            /\ Len(sent) <= Len(want)
            /\ \A i \in 1..Len(sent) :
                  /\ sent[i].json[1].method = want[i]
                  /\ sent[i].json[1].params = [entity |-> DeviceOf(r).entity]
                  /\ QueryFailed(sent[i]) =>
                        (i = Len(sent) /\ pc[p] = "done" /\ ErrorResponse(p))
            /\ (EndedPastSession(p) /\ DeviceOf(r) # None /\ want = <<>>) =>
                  /\ resp[p].status_code = 400
                  /\ resp[p].detail = "Unsupported device type for status reading"
            /\ (EndedPastSession(p) /\ want # <<>>) =>
                  \/ /\ resp[p].status_code = 200
                     /\ Len(sent) = Len(want)
                     /\ DOMAIN resp[p].content[1].result =
                            {want[i] : i \in 1..Len(want)}
                  \/ /\ ErrorResponse(p)
                     /\ sent # <<>>
                     /\ QueryFailed(sent[Len(sent)])

\* A dimmer whose on/off query succeeded and whose level query failed: two
\* POSTs, an error, no result.
C10_Witness ==
    \E p \in Procs :
        /\ pc[p] = "done"
        /\ req[p].op = "read_device_status"
        /\ Len(RpcSeq(p)) = 2
        /\ Answered200(RpcSeq(p)[1])
        /\ CallFailed(RpcSeq(p)[2])
        /\ ErrorResponse(p)

\* ------------------------------------------------------------------ C12

\* Handler p makes, in this step, a login call that the gateway answers
\* with 200.
LoginAnswered200Step(p) ==
    /\ Len(log'[p]) = Len(log[p]) + 1
    /\ IsLogin(log'[p][Len(log'[p])])
    /\ Answered200(log'[p][Len(log'[p])])

\* The catalog, address and credentials of a config.
FixedPart(cfg) ==
    [devices |-> cfg.devices, gateway_ip |-> cfg.gateway_ip,
     username |-> cfg.username, password |-> cfg.password]

\* C12: no step changes the device catalog, the gateway address, the
\* username or the password, and a step changes the cookie (self.cookie,
\* config['cookie'] or the file) only if it is a login that the gateway
\* answers with 200: a probe, a failed login, a rejected request and an RPC
\* POST leave the cookie as it was.
C12_OnlyLoginChangesCookie ==
    [][/\ FixedPart(config') = FixedPart(config)
       /\ FixedPart(config) = FixedPart(ConfigWith(""))
       /\ file' # None => FixedPart(file'[1]) = FixedPart(config)
       /\ (cookie' # cookie \/ config'.cookie # config.cookie \/ file' # file) =>
             \E p \in Procs : LoginAnswered200Step(p)]_vars

\* A request whose login was rejected while a cookie was stored: the cookie
\* sent with the probe is still the stored one.
C12_Witness ==
    \E p \in Procs :
        /\ pc[p] = "done"
        /\ Len(log[p]) = 2
        /\ IsLogin(log[p][2]) /\ CallFailed(log[p][2])
        /\ log[p][1].headers.Cookie = "user_id=c1"
        /\ cookie = "c1" /\ config.cookie = "c1" /\ file = Some(config)

\* ------------------------------------------------------------------ C13

\* The request asks an AC for a mode other than cool and heat (or for none),
\* or for a temperature that has no temp_<value> entry in its table.
NoCodeRequest(r) ==
    /\ r.op = "control_device"
    /\ TypeOf(r) = "AC"
    /\ \/ r.action = "set_mode" /\ r.ac_mode \notin {Some("cool"), Some("heat")}
       \/ /\ r.action = "set_temperature"
          /\ r.temperature # None
          /\ ("temp_" \o ToString(r.temperature[1])) \notin DOMAIN DeviceOf(r).ir_codes

\* C13: such a request is not rejected: once past its session step it sends
\* exactly one RPC, the send-IR-code method with params entity, index 1,
\* repeat 0, codeType 0 and an empty irCode, and the caller gets the
\* gateway's result.
C13_EmptyIrCodeSent ==
    \A p \in Procs :
        NoCodeRequest(req[p]) =>
            /\ \A i \in RpcAt(p) :
                  log[p][i].json =
                      Some([jsonrpc |-> "2.0",
                            method |-> "RPC_ZCL_Send_IR_Code",
                            params |-> [entity |-> DeviceOf(req[p]).entity,
                                        index |-> 1, repeat |-> 0, codeType |-> 0,
                                        irCode |-> <<>>]])
            /\ pc[p] = "post" => todo[p][1].params.irCode = <<>>
            /\ EndedPastSession(p) =>
                  /\ Cardinality(RpcAt(p)) = 1
                  /\ resp[p].status_code # 400
                  /\ (\A i \in RpcAt(p) : ~QueryFailed(log[p][i])) =>
                        resp[p].status_code = 200

\* An AC asked for mode dry: the empty code went out and the caller got the
\* gateway's result.
C13_Witness ==
    \E p \in Procs :
        /\ pc[p] = "done"
        /\ req[p].op = "control_device"
        /\ req[p].device_name = "BedroomAC"
        /\ req[p].action = "set_mode"
        /\ req[p].ac_mode = Some("dry")
        /\ RpcAt(p) # {}
        /\ log[p][Len(log[p])].json[1].params.irCode = <<>>
        /\ resp[p].status_code = 200

\* ----------------------------------------------------------------- C11

\* Handler p found the cookie invalid and its login() returned: the gateway
\* answered the login with 200 and save_config did not raise.
LoggedIn(p) ==
    /\ PastSession(p)
    /\ \E j \in LoginAt(p) : Answered200(log[p][j])
    /\ pc[p] = "done" => RpcAt(p) # {}

\* The cookies obtained by the logins of the handlers.
CookiesObtained ==
    {CookieOf(log[p][j]) : <<p, j>> \in
        {<<q, i>> \in Procs \X (1..2) : i \in LoginAt(q) /\ Answered200(log[q][i])}}

C11_MemoryAgrees ==
    (\A p \in Procs : pc[p] = "done" /\ LoggedIn(p)) =>
        /\ cookie = config.cookie
        /\ cookie \in CookiesObtained

\* ----------------------------------------------------------------- C14

\* The successful login of handler p, when it has one.
OwnLogin(p) == {j \in LoginAt(p) : Answered200(log[p][j])}

\* Handler p has assigned the cookie of its login to self.cookie.
HasAssigned(p) == OwnLogin(p) # {} /\ pc[p] # "login_cookie"

\* Handler p sends an RPC POST in this step.
SendsRpcStep(p) ==
    /\ Len(log'[p]) = Len(log[p]) + 1
    /\ IsRpc(log'[p][Len(log'[p])])

====
